---- MODULE Spec2Model ----
(***************************************************************************)
(* DA Sheet Manager: the credential/session service, the template routes   *)
(* and the decision-sheet routes of the server, as a state machine over    *)
(* the rows of its relational store.                                       *)
(*                                                                         *)
(*   SpecAuth      login / refresh / logout (services/auth.ts)             *)
(*   SpecBearer    the bearer-token check against issued refresh tokens    *)
(*   SpecRefreshSteps  the refresh of the synchronous store, write by      *)
(*                 write                                                   *)
(*   SpecTemplates template create / update / delete / publish             *)
(*   Spec          sheet get / update / delete / duplicate / share /       *)
(*                 unshare by three callers (who may touch which sheet)    *)
(*   SpecScores    sheet create / update / duplicate / delete by one       *)
(*                 owner over every vendor list (what gets stored)         *)
(*   SpecShare     the asynchronous share route, statement by statement    *)
(*   SpecRegister  the asynchronous registration of users                  *)
(*   SpecTemplateUse  asynchronous template delete against sheet create    *)
(*   SpecList      the sheet listing against ownership and shares          *)
(*   SpecUpdateRace  the asynchronous sheet update, statement by           *)
(*                 statement, against other updates and unshare            *)
(*   SpecRecalculate  the recalculation of one vendor's scores             *)
(***************************************************************************)
EXTENDS Integers, Sequences, FiniteSets, TLC

VARIABLES
    users,          \* rows of table users
    refreshTokens,  \* rows of table refresh_tokens, in insertion order
    now,            \* the wall clock, in whole ticks
    calls,          \* refreshAccessToken calls in flight
    loginFailures,  \* history: every rejected login as the caller saw it
    templates,      \* rows of templates with their categories and parameters
    nextTemplate,   \* number of template ids handed out so far
    sheets,         \* rows of da_sheets with their vendors and evaluations
    nextSheet,      \* number of sheet ids handed out so far
    sharedAccess,   \* rows of table shared_access
    updates,        \* history: successful updates per sheet
    pending,        \* requests of the asynchronous routes between two awaits
    resp            \* the response the server sent last

vars == <<users, refreshTokens, now, calls, loginFailures, templates,
          nextTemplate, sheets, nextSheet, sharedAccess, updates, pending, resp>>

authVars == <<refreshTokens, now, calls, loginFailures>>
templateVars == <<templates, nextTemplate>>
sheetVars == <<sheets, nextSheet, sharedAccess, updates>>

(***************************************************************************)
(* Bounds of the model.                                                    *)
(***************************************************************************)
MaxClock == 1
MaxTokens == 3
MaxCalls == 2
MaxTemplates == 2
MaxSheets == 2
MaxVersion == 3
MaxUsers == 5

(***************************************************************************)
(* Users.  The accounts of db/seed.ts (ADMIN001, USER001) and one more     *)
(* account registered by the admin.                                        *)
(***************************************************************************)
\* bcrypt.hash: a salted one-way hash.  Two hashes of one input differ (the
\* salt), and bcrypt.compare(x, h) answers whether h was computed from x.
bcryptHash(input, salt) == [input |-> input, salt |-> salt]

bcryptCompare(input, hash) == hash.input = input

SeedUsers ==
    { [id |-> 1, empCode |-> "ADMIN001", email |-> "admin@in.honda",
       passwordHash |-> bcryptHash("Admin@1234", 1), role |-> "admin"],
      [id |-> 2, empCode |-> "USER001", email |-> "user@in.honda",
       passwordHash |-> bcryptHash("User@1234", 2), role |-> "user"],
      [id |-> 3, empCode |-> "USER002", email |-> "user2@in.honda",
       passwordHash |-> bcryptHash("User@1234", 3), role |-> "user"] }

UserIds == {u.id : u \in SeedUsers}

UserById(id) == CHOOSE u \in users : u.id = id

\* A request in flight: the route, the caller, the row it names and its body.
PendingCall(op, caller, id, a, b) ==
    [op |-> op, caller |-> caller, id |-> id, a |-> a, b |-> b]

NoCall == PendingCall("none", 0, 0, "", "")

NoResp == [op |-> "none", status |-> 0, user |-> 0, id |-> 0, error |-> ""]

Response(op, status, user, id, error) ==
    [op |-> op, status |-> status, user |-> user, id |-> id, error |-> error]

(***************************************************************************)
(* Credential and session service (services/auth.ts).                      *)
(***************************************************************************)
\* JWT_EXPIRES_IN ('24h') and JWT_REFRESH_EXPIRES_IN ('7d'), in clock ticks.
JWT_EXPIRES_IN == 1
JWT_REFRESH_EXPIRES_IN == 2

\* jwt.sign(payload, JWT_SECRET, {expiresIn}): the token is a function of the
\* payload, the issue time in whole ticks (iat) and the expiry.
jwtSign(user, expiresIn) ==
    [userId |-> user.id, role |-> user.role, iat |-> now,
     exp |-> now + expiresIn, signed |-> TRUE]

\* jwt.verify: the signature is ours and the token has not expired.
jwtVerify(token) == token.signed /\ now < token.exp

generateTokens(user) ==
    [accessToken |-> jwtSign(user, JWT_EXPIRES_IN),
     refreshToken |-> jwtSign(user, JWT_REFRESH_EXPIRES_IN)]

\* A token nobody signed with JWT_SECRET.
ForgedToken == [userId |-> 2, role |-> "user", iat |-> 0,
                exp |-> JWT_REFRESH_EXPIRES_IN, signed |-> FALSE]

RowIds == 1..Len(refreshTokens)

\* Raw refresh tokens that clients hold, and may present.
IssuedTokens == {refreshTokens[i].tokenHash.input : i \in RowIds}

NewTokenRow(user, token) ==
    [userId |-> user.id,
     tokenHash |-> bcryptHash(token, Len(refreshTokens) + 1),
     expiresAt |-> now + JWT_REFRESH_EXPIRES_IN,
     revoked |-> FALSE,
     redemptions |-> 0]

\* Calls that hold a matched row and have not finished yet.
Pending == {c \in 1..MaxCalls : calls[c].pc # "idle"}

IdleCall == [pc |-> "idle", token |-> ForgedToken, matched |-> 0]

\* A login that names the missing account: the variant C8 rules out.
loginUserNamingAccount(empCode, password) ==
    LET found == {u \in users : u.empCode = empCode} IN
    IF found = {}
    THEN [ok |-> FALSE, error |-> "User not found", cause |-> "no user", user |-> 0]
    ELSE LET user == CHOOSE u \in found : TRUE IN
         IF ~bcryptCompare(password, user.passwordHash)
         THEN [ok |-> FALSE, error |-> "Invalid credentials",
               cause |-> "bad password", user |-> user.id]
         ELSE [ok |-> TRUE, error |-> "", cause |-> "", user |-> user.id]

\* loginUser up to the credential checks: the user row, or the error thrown.
loginUser(empCode, password) ==
    LET found == {u \in users : u.empCode = empCode} IN
    IF found = {}
    THEN [ok |-> FALSE, error |-> "Invalid credentials", cause |-> "no user", user |-> 0]
    ELSE LET user == CHOOSE u \in found : TRUE IN
         IF ~bcryptCompare(password, user.passwordHash)
         THEN [ok |-> FALSE, error |-> "Invalid credentials",
               cause |-> "bad password", user |-> user.id]
         ELSE [ok |-> TRUE, error |-> "", cause |-> "", user |-> user.id]

\* router.post('/login'): the catch block.
LoginErrorStatus(message) == IF message = "Invalid credentials" THEN 401 ELSE 500

LoginErrorBody(message) ==
    IF message = "Invalid credentials" THEN message ELSE "Internal server error"

\* POST /api/auth/login.  auditOk: whether the INSERT INTO audit_log inside
\* the login transaction succeeds; when it throws, the transaction is left
\* by the exception (the refresh_tokens row is not committed) and the route
\* answers 500.
Login(empCode, password, auditOk) ==
    LET r == loginUser(empCode, password) IN
    /\ IF r.ok
       THEN /\ Len(refreshTokens) + Cardinality(Pending) < MaxTokens
            /\ IF auditOk
               THEN /\ LET user == UserById(r.user)
                          tokens == generateTokens(user) IN
                       refreshTokens' =
                          Append(refreshTokens, NewTokenRow(user, tokens.refreshToken))
                    /\ resp' = Response("login", 200, r.user, 0, "")
               ELSE /\ resp' = Response("login", 500, r.user, 0, "Internal server error")
                    /\ UNCHANGED refreshTokens
            /\ UNCHANGED loginFailures
       ELSE /\ resp' = Response("login", LoginErrorStatus(r.error), 0, 0,
                                LoginErrorBody(r.error))
            /\ loginFailures' = loginFailures \cup
                   {[cause |-> r.cause, status |-> LoginErrorStatus(r.error),
                     error |-> LoginErrorBody(r.error)]}
            /\ UNCHANGED refreshTokens
    /\ UNCHANGED <<users, pending, now, calls, templateVars, sheetVars>>

\* The rows the SELECT of refreshAccessToken returns.
storedTokens(userId) ==
    {i \in RowIds : /\ refreshTokens[i].userId = userId
                    /\ ~refreshTokens[i].revoked
                    /\ refreshTokens[i].expiresAt > now}

\* refreshAccessToken, first half: jwt.verify, the SELECT of the user's active
\* rows and the bcrypt.compare loop.  Nothing is written yet.
RefreshBegin(c, token) ==
    /\ calls[c].pc = "idle"
    /\ IF ~jwtVerify(token)
       THEN /\ resp' = Response("refresh", 401, 0, 0, "Invalid refresh token")
            /\ UNCHANGED calls
       ELSE LET matching == {i \in storedTokens(token.userId) :
                                bcryptCompare(token, refreshTokens[i].tokenHash)} IN
            IF matching = {}
            THEN /\ resp' = Response("refresh", 401, 0, 0,
                                     "Refresh token not found or revoked")
                 /\ UNCHANGED calls
            ELSE /\ Len(refreshTokens) + Cardinality(Pending) < MaxTokens
                 /\ \E i \in matching :
                        calls' = [calls EXCEPT ![c] =
                                    [pc |-> "matched", token |-> token, matched |-> i]]
                 /\ UNCHANGED resp
    /\ UNCHANGED <<users, pending, refreshTokens, now, loginFailures, templateVars, sheetVars>>

\* refreshAccessToken, second half: revoke the matched row, read the user,
\* issue the new pair and insert its row; the transaction commits.
RefreshCommit(c) ==
    /\ calls[c].pc = "matched"
    /\ LET id == calls[c].matched
           found == {u \in users : u.id = calls[c].token.userId} IN
       IF found = {}
       THEN /\ resp' = Response("refresh", 401, 0, 0, "User not found")
            /\ UNCHANGED refreshTokens
       ELSE LET user == CHOOSE u \in found : TRUE
                tokens == generateTokens(user)
                revoked == [refreshTokens EXCEPT
                              ![id].revoked = TRUE,
                              ![id].redemptions = @ + 1] IN
            /\ refreshTokens' = Append(revoked, NewTokenRow(user, tokens.refreshToken))
            /\ resp' = Response("refresh", 200, user.id, id, "")
    /\ calls' = [calls EXCEPT ![c] = IdleCall]
    /\ UNCHANGED <<users, pending, now, loginFailures, templateVars, sheetVars>>

\* POST /api/auth/logout -> logoutUser(userId).  auditOk as in Login: the
\* audit insert shares the transaction of the revoking UPDATE.
Logout(userId, auditOk) ==
    /\ IF auditOk
       THEN /\ refreshTokens' = [i \in RowIds |->
                   IF refreshTokens[i].userId = userId
                   THEN [refreshTokens[i] EXCEPT !.revoked = TRUE]
                   ELSE refreshTokens[i]]
            /\ resp' = Response("logout", 200, userId, 0, "")
       ELSE /\ resp' = Response("logout", 500, userId, 0, "Internal server error")
            /\ UNCHANGED refreshTokens
    /\ UNCHANGED <<users, pending, now, calls, loginFailures, templateVars, sheetVars>>

\* Time passes.
Tick ==
    /\ now < MaxClock
    /\ now' = now + 1
    /\ UNCHANGED <<users, pending, refreshTokens, calls, loginFailures, templateVars,
                   sheetVars, resp>>

EmpCodes == {"ADMIN001", "USER001", "NOPE"}
Passwords == {"Admin@1234", "User@1234", "WrongPassword"}

Init ==
    /\ users = SeedUsers
    /\ refreshTokens = <<>>
    /\ now = 0
    /\ calls = [c \in 1..MaxCalls |-> IdleCall]
    /\ loginFailures = {}
    /\ templates = [t \in {} |-> 0]
    /\ nextTemplate = 0
    /\ sheets = [s \in {} |-> 0]
    /\ nextSheet = 0
    /\ sharedAccess = {}
    /\ updates = [s \in {} |-> 0]
    /\ pending = [c \in 1..MaxCalls |-> NoCall]
    /\ resp = NoResp

NextAuth ==
    \/ \E e \in EmpCodes, p \in Passwords, auditOk \in BOOLEAN : Login(e, p, auditOk)
    \/ \E c \in 1..MaxCalls, t \in IssuedTokens \cup {ForgedToken} : RefreshBegin(c, t)
    \/ \E c \in 1..MaxCalls : RefreshCommit(c)
    \/ \E u \in UserIds, auditOk \in BOOLEAN : Logout(u, auditOk)
    \/ Tick

SpecAuth == Init /\ [][NextAuth]_vars

(***************************************************************************)
(* The bearer-token check (middleware/auth.ts authenticate).                *)
(***************************************************************************)
\* authenticate: jwt.verify(token, JWT_SECRET) and nothing else; the payload
\* becomes req.user.  Access and refresh tokens are signed with the same
\* secret over the same payload.
Authenticate(token) ==
    /\ resp' = IF jwtVerify(token)
               THEN Response("authenticate", 200, token.userId, 0, "")
               ELSE IF token.signed
               THEN Response("authenticate", 401, 0, 0, "Token expired")
               ELSE Response("authenticate", 401, 0, 0, "Invalid token")
    /\ UNCHANGED <<users, pending, authVars, templateVars, sheetVars>>

NextBearer ==
    \/ \E e \in EmpCodes, p \in Passwords : Login(e, p, TRUE)
    \/ \E u \in UserIds : Logout(u, TRUE)
    \/ \E t \in IssuedTokens \cup {ForgedToken} : Authenticate(t)
    \/ Tick

SpecBearer == Init /\ [][NextBearer]_vars

(***************************************************************************)
(* refreshAccessToken over the synchronous store.  There is no transaction  *)
(* around its two writes: each statement commits by itself, and the         *)
(* function awaits bcrypt.hash between them.                                *)
(***************************************************************************)
\* After the match: UPDATE refresh_tokens SET revoked_at (committed), the
\* SELECT of the user and generateTokens, up to the await of bcrypt.hash.
RefreshRevoke(c) ==
    /\ calls[c].pc = "matched"
    /\ LET id == calls[c].matched
           found == {u \in users : u.id = calls[c].token.userId} IN
       /\ refreshTokens' = [refreshTokens EXCEPT ![id].revoked = TRUE,
                                                 ![id].redemptions = @ + 1]
       /\ IF found = {}
          THEN /\ resp' = Response("refresh", 401, 0, 0, "User not found")
               /\ calls' = [calls EXCEPT ![c] = IdleCall]
          ELSE /\ calls' = [calls EXCEPT
                              ![c].pc = "revoked",
                              ![c].token =
                                  generateTokens(CHOOSE u \in found : TRUE).refreshToken]
               /\ UNCHANGED resp
    /\ UNCHANGED <<users, pending, now, loginFailures, templateVars, sheetVars>>

\* After bcrypt.hash: INSERT INTO refresh_tokens, and the pair is returned.
RefreshInsert(c) ==
    /\ calls[c].pc = "revoked"
    /\ LET user == UserById(calls[c].token.userId) IN
       /\ refreshTokens' = Append(refreshTokens, NewTokenRow(user, calls[c].token))
       /\ resp' = Response("refresh", 200, user.id, calls[c].matched, "")
    /\ calls' = [calls EXCEPT ![c] = IdleCall]
    /\ UNCHANGED <<users, pending, now, loginFailures, templateVars, sheetVars>>

NextRefreshSteps ==
    \/ \E e \in EmpCodes, p \in Passwords : Login(e, p, TRUE)
    \/ \E c \in 1..MaxCalls, t \in IssuedTokens \cup {ForgedToken} : RefreshBegin(c, t)
    \/ \E c \in 1..MaxCalls : RefreshRevoke(c)
    \/ \E c \in 1..MaxCalls : RefreshInsert(c)
    \/ \E u \in UserIds : Logout(u, TRUE)
    \/ Tick

SpecRefreshSteps == Init /\ [][NextRefreshSteps]_vars

(***************************************************************************)
(* Template routes (routes/templates.ts).  A template row carries its      *)
(* categories, each with its judgment parameters, in sort order.  Category *)
(* and parameter ids are the ids the client sends with the body.           *)
(***************************************************************************)
Weightages == {5, 10, 15, 20, 25, 30}

RECURSIVE SumWeightage(_)
SumWeightage(parameters) ==
    IF parameters = <<>> THEN 0
    ELSE Head(parameters).weightage + SumWeightage(Tail(parameters))

getCategoryWeightage(category) == SumWeightage(category.parameters)

RECURSIVE getTotalWeightage(_)
getTotalWeightage(categories) ==
    IF categories = <<>> THEN 0
    ELSE getCategoryWeightage(Head(categories)) + getTotalWeightage(Tail(categories))

\* createTemplateSchema / categorySchema / judgmentParameterSchema
validCategories(categories) ==
    /\ Len(categories) >= 1
    /\ \A i \in 1..Len(categories) :
          /\ Len(categories[i].parameters) >= 1
          /\ \A j \in 1..Len(categories[i].parameters) :
                categories[i].parameters[j].weightage \in Weightages

Param(id, w) == [id |-> id, weightage |-> w]

\* Request bodies: totals 100, 105 and 60, and one the schema rejects.
Body100 == << [id |-> "c1", parameters |-> <<Param("p1", 30), Param("p2", 30)>>],
              [id |-> "c2", parameters |-> <<Param("p3", 30), Param("p4", 10)>>] >>
Body105 == << [id |-> "c1", parameters |-> <<Param("p1", 30), Param("p2", 30)>>],
              [id |-> "c2", parameters |-> <<Param("p3", 30), Param("p4", 15)>>] >>
Body60 == << [id |-> "c1", parameters |-> <<Param("p1", 30), Param("p2", 30)>>] >>
BodyInvalid == << [id |-> "c1", parameters |-> <<Param("p1", 7)>>] >>

TemplateIds == DOMAIN templates

\* authorize('admin'): the role comes from the caller's access token.
RoleOf(userId) == UserById(userId).role

authorize(userId, role) == RoleOf(userId) = role

\* POST /api/templates
TemplateCreate(u, categories, isDeployed) ==
    /\ IF ~authorize(u, "admin")
       THEN /\ resp' = Response("template.create", 403, u, 0, "Insufficient permissions")
            /\ UNCHANGED templateVars
       ELSE IF ~validCategories(categories)
       THEN /\ resp' = Response("template.create", 400, u, 0, "Validation failed")
            /\ UNCHANGED templateVars
       ELSE /\ nextTemplate < MaxTemplates
            /\ nextTemplate' = nextTemplate + 1
            /\ templates' = templates @@
                   (nextTemplate + 1 :> [isDeployed |-> isDeployed,
                                         categories |-> categories])
            /\ resp' = Response("template.create", 201, u, nextTemplate + 1, "")
    /\ UNCHANGED <<users, pending, authVars, sheetVars>>

\* An updateTemplateSchema body: every field is optional.
TemplatePatch(hasDeployed, isDeployed, hasCategories, categories) ==
    [hasDeployed |-> hasDeployed, isDeployed |-> isDeployed,
     hasCategories |-> hasCategories, categories |-> categories]

\* PUT /api/templates/:id
TemplateUpdate(u, id, patch) ==
    /\ IF ~authorize(u, "admin")
       THEN /\ resp' = Response("template.update", 403, u, id, "Insufficient permissions")
            /\ UNCHANGED templateVars
       ELSE IF patch.hasCategories /\ ~validCategories(patch.categories)
       THEN /\ resp' = Response("template.update", 400, u, id, "Validation failed")
            /\ UNCHANGED templateVars
       ELSE IF id \notin TemplateIds
       THEN /\ resp' = Response("template.update", 404, u, id, "Template not found")
            /\ UNCHANGED templateVars
       ELSE /\ templates' = [templates EXCEPT ![id] =
                   [isDeployed |-> IF patch.hasDeployed THEN patch.isDeployed
                                   ELSE @.isDeployed,
                    categories |-> IF patch.hasCategories THEN patch.categories
                                   ELSE @.categories]]
            /\ resp' = Response("template.update", 200, u, id, "")
            /\ UNCHANGED nextTemplate
    /\ UNCHANGED <<users, pending, authVars, sheetVars>>

\* DELETE /api/templates/:id
TemplateDelete(u, id) ==
    /\ IF ~authorize(u, "admin")
       THEN /\ resp' = Response("template.delete", 403, u, id, "Insufficient permissions")
            /\ UNCHANGED templateVars
       ELSE IF id \notin TemplateIds
       THEN /\ resp' = Response("template.delete", 404, u, id, "Template not found")
            /\ UNCHANGED templateVars
       ELSE IF \E s \in DOMAIN sheets : sheets[s].templateId = id
       THEN /\ resp' = Response("template.delete", 409, u, id,
                                "Cannot delete template that is in use by DA sheets")
            /\ UNCHANGED templateVars
       ELSE /\ templates' = [t \in TemplateIds \ {id} |-> templates[t]]
            /\ resp' = Response("template.delete", 200, u, id, "")
            /\ UNCHANGED nextTemplate
    /\ UNCHANGED <<users, pending, authVars, sheetVars>>

\* The flag POST /:id/publish writes, from the row it has just read.
newStatus(row) == IF row.isDeployed THEN FALSE ELSE TRUE

\* POST /api/templates/:id/publish
TemplatePublish(u, id) ==
    /\ IF ~authorize(u, "admin")
       THEN /\ resp' = Response("template.publish", 403, u, id, "Insufficient permissions")
            /\ UNCHANGED templateVars
       ELSE IF id \notin TemplateIds
       THEN /\ resp' = Response("template.publish", 404, u, id, "Template not found")
            /\ UNCHANGED templateVars
       ELSE /\ templates' = [templates EXCEPT ![id].isDeployed = newStatus(templates[id])]
            /\ resp' = Response("template.publish", 200, u, id, "")
            /\ UNCHANGED nextTemplate
    /\ UNCHANGED <<users, pending, authVars, sheetVars>>

TemplateBodies == {Body100, Body105, Body60, BodyInvalid}

TemplatePatches ==
    {TemplatePatch(hd, d, hc, b) :
        hd \in BOOLEAN, d \in BOOLEAN, hc \in BOOLEAN, b \in TemplateBodies}

NextTemplates ==
    \/ \E u \in {1, 2}, b \in TemplateBodies, d \in BOOLEAN : TemplateCreate(u, b, d)
    \/ \E u \in {1, 2}, t \in 1..MaxTemplates, p \in TemplatePatches : TemplateUpdate(u, t, p)
    \/ \E u \in {1, 2}, t \in 1..MaxTemplates : TemplateDelete(u, t)
    \/ \E u \in {1, 2}, t \in 1..MaxTemplates : TemplatePublish(u, t)

SpecTemplates == Init /\ [][NextTemplates]_vars

(***************************************************************************)
(* Decision-sheet routes (routes/sheets.ts).  A sheet row carries its      *)
(* vendors in sort order, each with its vendor_evaluations rows.           *)
(***************************************************************************)
SheetIds == DOMAIN sheets

Evaluation(parameterId, evalScore, result) ==
    [parameterId |-> parameterId, evalScore |-> evalScore, result |-> result]

\* One entry of a vendor's scores object: category id -> {evaluations, subTotal}.
CategoryScores(categoryId, evaluations, subTotal) ==
    [categoryId |-> categoryId, evaluations |-> evaluations, subTotal |-> subTotal]

VendorInput(name, scores, overallScore) ==
    [name |-> name, scores |-> scores, overallScore |-> overallScore]

\* judgmentEvaluationSchema, vendorScoresSchema, vendorSchema
validVendor(vendor) ==
    /\ Len(vendor.name) >= 1
    /\ vendor.overallScore >= 0
    /\ \A i \in 1..Len(vendor.scores) :
          /\ vendor.scores[i].subTotal >= 0
          /\ \A j \in 1..Len(vendor.scores[i].evaluations) :
                LET e == vendor.scores[i].evaluations[j] IN
                e.evalScore >= 0 /\ e.evalScore <= 10 /\ e.result >= 0

validVendors(vendorList) == \A i \in 1..Len(vendorList) : validVendor(vendorList[i])

\* The vendor_evaluations rows the nested insert loops write for one category
\* entry: the client's score and the client's result, as sent.
RECURSIVE EvaluationRows(_, _)
EvaluationRows(categoryId, evaluations) ==
    IF evaluations = <<>> THEN <<>>
    ELSE << [categoryId |-> categoryId,
             parameterId |-> Head(evaluations).parameterId,
             evalScore |-> Head(evaluations).evalScore,
             result |-> Head(evaluations).result] >>
         \o EvaluationRows(categoryId, Tail(evaluations))

RECURSIVE ScoreRows(_)
ScoreRows(scores) ==
    IF scores = <<>> THEN <<>>
    ELSE EvaluationRows(Head(scores).categoryId, Head(scores).evaluations)
         \o ScoreRows(Tail(scores))

\* The vendors row and its evaluation rows for one vendor of the request.
VendorRow(vendor) ==
    [name |-> vendor.name,
     overallScore |-> vendor.overallScore,
     evaluations |-> ScoreRows(vendor.scores)]

VendorRows(vendorList) == [i \in 1..Len(vendorList) |-> VendorRow(vendorList[i])]

\* UNIQUE(vendor_id, parameter_id) on vendor_evaluations: an insert that
\* repeats a parameter for one vendor throws, and the transaction rolls back.
InsertsSucceed(vendorList) ==
    \A i \in 1..Len(vendorList) :
        LET rows == ScoreRows(vendorList[i].scores) IN
        \A a, b \in 1..Len(rows) : rows[a].parameterId = rows[b].parameterId => a = b

\* An access check that takes any shared_access row for any level: the
\* variant C10 rules out.
hasAccessAnyLevel(sheetId, userId, requiredLevel) ==
    IF sheetId \notin SheetIds THEN FALSE
    ELSE IF sheets[sheetId].createdBy = userId THEN TRUE
    ELSE LET user == {u \in users : u.id = userId} IN
         IF user = {} THEN FALSE
         ELSE \E a \in sharedAccess :
                 a.sheet = sheetId /\ a.email = (CHOOSE u \in user : TRUE).email

\* hasAccess(sheetId, userId, requiredLevel): owner, or a shared_access row
\* for the user's email that satisfies the level.
hasAccess(sheetId, userId, requiredLevel) ==
    IF sheetId \notin SheetIds THEN FALSE
    ELSE IF sheets[sheetId].createdBy = userId THEN TRUE
    ELSE LET user == {u \in users : u.id = userId} IN
         IF user = {} THEN FALSE
         ELSE LET email == (CHOOSE u \in user : TRUE).email
                  access == {a \in sharedAccess :
                                a.sheet = sheetId /\ a.email = email} IN
              IF access = {} THEN FALSE
              ELSE IF requiredLevel = "edit"
                      /\ (CHOOSE a \in access : TRUE).level # "edit" THEN FALSE
              ELSE TRUE

\* The guard of the get, update and duplicate routes.
routeAccess(sheetId, userId, requiredLevel) ==
    hasAccess(sheetId, userId, requiredLevel) \/ RoleOf(userId) = "admin"

\* A guard that also lets an edit grantee through: the variant C11 rules out.
ownerAdminOrEditor(sheetId, userId) ==
    \/ sheets[sheetId].createdBy = userId
    \/ RoleOf(userId) = "admin"
    \/ hasAccess(sheetId, userId, "edit")

\* A guard that lets any user with a role through: the variant C9 rules out.
anyRole(sheetId, userId) == RoleOf(userId) \in {"admin", "user"}

\* The guard of the delete, share and unshare routes (the sheet exists).
ownerOrAdmin(sheetId, userId) ==
    sheets[sheetId].createdBy = userId \/ RoleOf(userId) = "admin"

CreateInput(name, templateId, vendorList) ==
    [name |-> name, templateId |-> templateId, vendors |-> vendorList]

\* POST /api/sheets
SheetCreate(u, input) ==
    /\ IF ~validVendors(input.vendors)
       THEN /\ resp' = Response("sheet.create", 400, u, 0, "Validation failed")
            /\ UNCHANGED sheetVars
       ELSE IF input.templateId \notin TemplateIds
       THEN /\ resp' = Response("sheet.create", 400, u, 0, "Template not found")
            /\ UNCHANGED sheetVars
       ELSE /\ nextSheet < MaxSheets
            /\ nextSheet' = nextSheet + 1
            /\ IF InsertsSucceed(input.vendors)
               THEN /\ sheets' = sheets @@
                          (nextSheet + 1 :>
                             [name |-> input.name, status |-> "Draft",
                              templateId |-> input.templateId, version |-> 1,
                              createdBy |-> u, approvedBy |-> 0,
                              vendors |-> VendorRows(input.vendors)])
                    /\ updates' = updates @@ (nextSheet + 1 :> 0)
                    /\ resp' = Response("sheet.create", 201, u, nextSheet + 1, "")
               ELSE /\ resp' = Response("sheet.create", 500, u, 0, "Internal server error")
                    /\ UNCHANGED <<sheets, updates>>
            /\ UNCHANGED sharedAccess
    /\ UNCHANGED <<users, pending, authVars, templateVars>>

\* GET /api/sheets/:id
SheetGet(u, id) ==
    /\ resp' = IF ~routeAccess(id, u, "view")
               THEN Response("sheet.get", 403, u, id, "Access denied")
               ELSE IF id \notin SheetIds
               THEN Response("sheet.get", 404, u, id, "DA Sheet not found")
               ELSE Response("sheet.get", 200, u, id, "")
    /\ UNCHANGED <<users, pending, authVars, templateVars, sheetVars>>

\* An updateDASheetSchema body: every field is optional.
SheetPatch(hasName, name, hasStatus, status, hasVendors, vendorList) ==
    [hasName |-> hasName, name |-> name, hasStatus |-> hasStatus, status |-> status,
     hasVendors |-> hasVendors, vendors |-> vendorList]

\* An update that counts a version only when the patch carries a field: the
\* variant C4 rules out.
UpdatedSheetWhenChanged(row, patch) ==
    [row EXCEPT
        !.name = IF patch.hasName THEN patch.name ELSE @,
        !.status = IF patch.hasStatus THEN patch.status ELSE @,
        !.version = IF patch.hasName \/ patch.hasStatus \/ patch.hasVendors
                    THEN @ + 1 ELSE @,
        !.vendors = IF patch.hasVendors THEN VendorRows(patch.vendors) ELSE @]

\* The row PUT /:id leaves: the fields of the patch, and version + 1.
UpdatedSheet(row, patch) ==
    [row EXCEPT
        !.name = IF patch.hasName THEN patch.name ELSE @,
        !.status = IF patch.hasStatus THEN patch.status ELSE @,
        !.version = @ + 1,
        !.vendors = IF patch.hasVendors THEN VendorRows(patch.vendors) ELSE @]

\* A failed update whose UPDATE of the sheet row and DELETE of the vendors
\* stay in place: the variant C25 rules out.
appliedUntilFailure(row, patch) == [UpdatedSheet(row, patch) EXCEPT !.vendors = <<>>]

\* The row after a statement of the transaction has thrown: db.transaction
\* rolls every statement of the transaction back.
rolledBack(row, patch) == row

\* PUT /api/sheets/:id
SheetUpdate(u, id, patch) ==
    /\ IF patch.hasVendors /\ ~validVendors(patch.vendors)
       THEN /\ resp' = Response("sheet.update", 400, u, id, "Validation failed")
            /\ UNCHANGED sheetVars
       ELSE IF ~routeAccess(id, u, "edit")
       THEN /\ resp' = Response("sheet.update", 403, u, id, "Access denied")
            /\ UNCHANGED sheetVars
       ELSE IF id \notin SheetIds
       THEN /\ resp' = Response("sheet.update", 404, u, id, "DA Sheet not found")
            /\ UNCHANGED sheetVars
       ELSE IF patch.hasVendors /\ ~InsertsSucceed(patch.vendors)
       THEN /\ resp' = Response("sheet.update", 500, u, id, "Internal server error")
            /\ sheets' = [sheets EXCEPT ![id] = rolledBack(@, patch)]
            /\ UNCHANGED <<nextSheet, sharedAccess, updates>>
       ELSE /\ sheets[id].version < MaxVersion
            /\ sheets' = [sheets EXCEPT ![id] = UpdatedSheet(@, patch)]
            /\ updates' = [updates EXCEPT ![id] = @ + 1]
            /\ resp' = Response("sheet.update", 200, u, id, "")
            /\ UNCHANGED <<nextSheet, sharedAccess>>
    /\ UNCHANGED <<users, pending, authVars, templateVars>>

\* DELETE /api/sheets/:id (vendors, evaluations and shared_access cascade)
SheetDelete(u, id) ==
    /\ IF id \notin SheetIds
       THEN /\ resp' = Response("sheet.delete", 404, u, id, "DA Sheet not found")
            /\ UNCHANGED sheetVars
       ELSE IF ~ownerOrAdmin(id, u)
       THEN /\ resp' = Response("sheet.delete", 403, u, id,
                                "Only the owner or admin can delete this sheet")
            /\ UNCHANGED sheetVars
       ELSE /\ sheets' = [s \in SheetIds \ {id} |-> sheets[s]]
            /\ sharedAccess' = {a \in sharedAccess : a.sheet # id}
            /\ resp' = Response("sheet.delete", 200, u, id, "")
            /\ UNCHANGED <<nextSheet, updates>>
    /\ UNCHANGED <<users, pending, authVars, templateVars>>

\* A duplicate that carries the source's status and version over: the
\* variant C13 rules out.
SheetDuplicateAsIs(u, id) ==
    /\ IF ~routeAccess(id, u, "view")
       THEN /\ resp' = Response("sheet.duplicate", 403, u, id, "Access denied")
            /\ UNCHANGED sheetVars
       ELSE IF id \notin SheetIds
       THEN /\ resp' = Response("sheet.duplicate", 404, u, id, "DA Sheet not found")
            /\ UNCHANGED sheetVars
       ELSE /\ nextSheet < MaxSheets
            /\ nextSheet' = nextSheet + 1
            /\ sheets' = sheets @@
                  (nextSheet + 1 :>
                     [sheets[id] EXCEPT !.name = Append(@, "(Copy)"), !.createdBy = u])
            /\ updates' = updates @@ (nextSheet + 1 :> 0)
            /\ resp' = Response("sheet.duplicate", 201, u, nextSheet + 1, "")
            /\ UNCHANGED sharedAccess
    /\ UNCHANGED <<users, pending, authVars, templateVars>>

\* POST /api/sheets/:id/duplicate
SheetDuplicate(u, id) ==
    /\ IF ~routeAccess(id, u, "view")
       THEN /\ resp' = Response("sheet.duplicate", 403, u, id, "Access denied")
            /\ UNCHANGED sheetVars
       ELSE IF id \notin SheetIds
       THEN /\ resp' = Response("sheet.duplicate", 404, u, id, "DA Sheet not found")
            /\ UNCHANGED sheetVars
       ELSE /\ nextSheet < MaxSheets
            /\ nextSheet' = nextSheet + 1
            /\ sheets' = sheets @@
                  (nextSheet + 1 :>
                     [name |-> Append(sheets[id].name, "(Copy)"), status |-> "Draft",
                      templateId |-> sheets[id].templateId, version |-> 1,
                      createdBy |-> u, approvedBy |-> 0,
                      vendors |-> sheets[id].vendors])
            /\ updates' = updates @@ (nextSheet + 1 :> 0)
            /\ resp' = Response("sheet.duplicate", 201, u, nextSheet + 1, "")
            /\ UNCHANGED sharedAccess
    /\ UNCHANGED <<users, pending, authVars, templateVars>>

\* Addresses that pass z.string().email()
Emails == {u.email : u \in SeedUsers}

\* shareAccessSchema
validShare(email, accessLevel) ==
    email \in Emails /\ accessLevel \in {"view", "edit"}

\* INSERT ... ON CONFLICT(da_sheet_id, user_email) DO UPDATE SET access_level
\* (MERGE INTO shared_access ... WHEN MATCHED THEN UPDATE in the Oracle routes)
upsertAccess(rows, id, email, accessLevel) ==
    {a \in rows : ~(a.sheet = id /\ a.email = email)}
    \cup {[sheet |-> id, email |-> email, level |-> accessLevel]}

\* POST /api/sheets/:id/share (upsert on (da_sheet_id, user_email))
SheetShare(u, id, email, accessLevel) ==
    /\ IF ~validShare(email, accessLevel)
       THEN /\ resp' = Response("sheet.share", 400, u, id, "Validation failed")
            /\ UNCHANGED sharedAccess
       ELSE IF id \notin SheetIds
       THEN /\ resp' = Response("sheet.share", 404, u, id, "DA Sheet not found")
            /\ UNCHANGED sharedAccess
       ELSE IF ~ownerOrAdmin(id, u)
       THEN /\ resp' = Response("sheet.share", 403, u, id,
                                "Only the owner or admin can share this sheet")
            /\ UNCHANGED sharedAccess
       ELSE /\ sharedAccess' = upsertAccess(sharedAccess, id, email, accessLevel)
            /\ resp' = Response("sheet.share", 200, u, id, "")
    /\ UNCHANGED <<users, pending, authVars, templateVars, sheets, nextSheet, updates>>

\* DELETE /api/sheets/:id/share/:email
SheetUnshare(u, id, email) ==
    /\ IF id \notin SheetIds
       THEN /\ resp' = Response("sheet.unshare", 404, u, id, "DA Sheet not found")
            /\ UNCHANGED sharedAccess
       ELSE IF ~ownerOrAdmin(id, u)
       THEN /\ resp' = Response("sheet.unshare", 403, u, id,
                                "Only the owner or admin can manage sharing")
            /\ UNCHANGED sharedAccess
       ELSE /\ sharedAccess' =
                  {a \in sharedAccess : ~(a.sheet = id /\ a.email = email)}
            /\ resp' = Response("sheet.unshare", 200, u, id, "")
    /\ UNCHANGED <<users, pending, authVars, templateVars, sheets, nextSheet, updates>>

(***************************************************************************)
(* The asynchronous (Oracle) routes.  Each awaits the database between its *)
(* statements, so another request can run between its reads and its write. *)
(***************************************************************************)
Idle == {c \in 1..MaxCalls : pending[c].op = "none"}

\* POST /api/sheets/:id/share, up to the MERGE: validation, the SELECT of the
\* sheet and the owner-or-admin check.
ShareBegin(c, u, id, email, accessLevel) ==
    /\ c \in Idle
    /\ IF ~validShare(email, accessLevel)
       THEN /\ resp' = Response("sheet.share", 400, u, id, "Validation failed")
            /\ UNCHANGED pending
       ELSE IF id \notin SheetIds
       THEN /\ resp' = Response("sheet.share", 404, u, id, "DA Sheet not found")
            /\ UNCHANGED pending
       ELSE IF ~ownerOrAdmin(id, u)
       THEN /\ resp' = Response("sheet.share", 403, u, id,
                                "Only the owner or admin can share this sheet")
            /\ UNCHANGED pending
       ELSE /\ pending' = [pending EXCEPT ![c] =
                              PendingCall("sheet.share", u, id, email, accessLevel)]
            /\ UNCHANGED resp
    /\ UNCHANGED <<users, authVars, templateVars, sheetVars>>

\* POST /api/sheets/:id/share, the MERGE statement starts: its ON clause is
\* evaluated on the rows committed at that moment (statement-level read
\* consistency).
ShareMerge(c) ==
    /\ pending[c].op = "sheet.share"
    /\ LET call == pending[c]
           matched == \E a \in sharedAccess : a.sheet = call.id /\ a.email = call.a IN
       pending' = [pending EXCEPT ![c].op =
                      IF matched THEN "sheet.share.matched" ELSE "sheet.share.unmatched"]
    /\ UNCHANGED <<users, authVars, templateVars, sheetVars, resp>>

\* POST /api/sheets/:id/share, the MERGE writes and the transaction commits.
\* WHEN MATCHED updates the row if it is still there.  WHEN NOT MATCHED
\* inserts: the insert fails on da_sheet_id REFERENCES da_sheets when the sheet
\* was deleted meanwhile, and on uq_sheet_email when another request has
\* committed a row for the same (sheet, email) meanwhile; the route's catch
\* answers 500.
ShareCommit(c) ==
    /\ pending[c].op \in {"sheet.share.matched", "sheet.share.unmatched"}
    /\ LET call == pending[c]
           present == \E a \in sharedAccess : a.sheet = call.id /\ a.email = call.a IN
       IF call.op = "sheet.share.matched"
       THEN /\ sharedAccess' = IF present
                               THEN upsertAccess(sharedAccess, call.id, call.a, call.b)
                               ELSE sharedAccess
            /\ resp' = Response("sheet.share", 200, call.caller, call.id, "")
       ELSE IF call.id \notin SheetIds \/ present
       THEN /\ resp' = Response("sheet.share", 500, call.caller, call.id,
                                "Internal server error")
            /\ UNCHANGED sharedAccess
       ELSE /\ sharedAccess' = upsertAccess(sharedAccess, call.id, call.a, call.b)
            /\ resp' = Response("sheet.share", 200, call.caller, call.id, "")
    /\ pending' = [pending EXCEPT ![c] = NoCall]
    /\ UNCHANGED <<users, authVars, templateVars, sheets, nextSheet, updates>>

(***************************************************************************)
(* Requests of the sheet specification.                                    *)
(***************************************************************************)
Acme == <<"Acme">>

\* score 8 on p1 (weightage 30): result 240, sub-total 240, overall 240
VendorHonest ==
    VendorInput(Acme, <<CategoryScores("c1", <<Evaluation("p1", 8, 240)>>, 240)>>, 240)
\* the same score with a result of the client's own
VendorForgedResult ==
    VendorInput(Acme, <<CategoryScores("c1", <<Evaluation("p1", 8, 999)>>, 999)>>, 999)
\* the right result under an overall score of the client's own
VendorForgedOverall ==
    VendorInput(Acme, <<CategoryScores("c1", <<Evaluation("p1", 8, 240)>>, 240)>>, 1)
\* two evaluations of one parameter
VendorRepeated ==
    VendorInput(Acme, <<CategoryScores("c1", <<Evaluation("p1", 8, 240),
                                               Evaluation("p1", 0, 0)>>, 240)>>, 240)
\* a score the schema rejects
VendorInvalid ==
    VendorInput(Acme, <<CategoryScores("c1", <<Evaluation("p1", 11, 330)>>, 330)>>, 330)
\* no evaluation matrix
VendorBare == VendorInput(Acme, <<>>, 0)

VendorLists ==
    { <<>>, <<VendorHonest>>, <<VendorForgedResult>>, <<VendorForgedOverall>>,
      <<VendorRepeated>>, <<VendorInvalid>>, <<VendorBare>> }

SheetName == <<"DA">>

EmptyPatch == SheetPatch(FALSE, SheetName, FALSE, "Draft", FALSE, <<>>)
RenamePatch == SheetPatch(TRUE, <<"DA", "2">>, FALSE, "Draft", FALSE, <<>>)
SubmitPatch == SheetPatch(FALSE, SheetName, TRUE, "Submitted", FALSE, <<>>)
ApprovePatch == SheetPatch(FALSE, SheetName, TRUE, "Approved", FALSE, <<>>)
DraftPatch == SheetPatch(FALSE, SheetName, TRUE, "Draft", FALSE, <<>>)
VendorsPatch(vendorList) == SheetPatch(FALSE, SheetName, FALSE, "Draft", TRUE, vendorList)
\* a new name and status with a vendor list whose second insert fails
FailingPatch == SheetPatch(TRUE, <<"DA", "2">>, TRUE, "Submitted", TRUE, <<VendorRepeated>>)

AccessLevels == {"view", "edit", "owner"}

AccessPatches == {EmptyPatch, RenamePatch, VendorsPatch(<<VendorInvalid>>)}

\* Requests of the access specification: three callers on the sheets of
\* user 2, shared with user 3.
NextSheets ==
    \/ TemplateCreate(1, Body100, TRUE)
    \/ \E t \in 1..MaxTemplates : SheetCreate(2, CreateInput(SheetName, t, <<>>))
    \/ \E u \in UserIds, s \in 1..MaxSheets : SheetGet(u, s)
    \/ \E u \in UserIds, s \in 1..MaxSheets,
          p \in AccessPatches : SheetUpdate(u, s, p)
    \/ \E u \in UserIds, s \in 1..MaxSheets : SheetDelete(u, s)
    \/ \E u \in UserIds, s \in 1..MaxSheets : SheetDuplicate(u, s)
    \/ \E u \in UserIds, s \in 1..MaxSheets, l \in AccessLevels :
          SheetShare(u, s, "user2@in.honda", l)
    \/ \E u \in UserIds, s \in 1..MaxSheets : SheetUnshare(u, s, "user2@in.honda")

Spec == Init /\ [][NextSheets]_vars

\* Requests of the sharing specification: share requests of the asynchronous
\* routes that overlap, on the sheets of user 2.
NextShare ==
    \/ TemplateCreate(1, Body100, TRUE)
    \/ SheetCreate(2, CreateInput(SheetName, 1, <<>>))
    \/ \E c \in 1..MaxCalls, u \in UserIds, s \in 1..MaxSheets, l \in AccessLevels :
          ShareBegin(c, u, s, "user2@in.honda", l)
    \/ \E c \in 1..MaxCalls : ShareMerge(c)
    \/ \E c \in 1..MaxCalls : ShareCommit(c)
    \/ \E u \in UserIds, s \in 1..MaxSheets : SheetUnshare(u, s, "user2@in.honda")
    \/ \E s \in 1..MaxSheets : SheetDelete(2, s)

SpecShare == Init /\ [][NextShare]_vars

(***************************************************************************)
(* Registration (routes/auth.ts, services/auth.ts registerUser).  The       *)
(* service awaits between its SELECT and its INSERT, so two registrations   *)
(* interleave there.                                                        *)
(***************************************************************************)
\* POST /api/auth/register up to the await of bcrypt.hash: authorize('admin'),
\* then the SELECT ... WHERE emp_code = :empCode OR email = :email.
RegisterBegin(c, caller, empCode, email) ==
    /\ c \in Idle
    /\ IF ~authorize(caller, "admin")
       THEN /\ resp' = Response("register", 403, caller, 0, "Insufficient permissions")
            /\ UNCHANGED pending
       ELSE IF \E u \in users : u.empCode = empCode \/ u.email = email
       THEN /\ resp' = Response("register", 409, caller, 0,
                                "User with this employee code or email already exists")
            /\ UNCHANGED pending
       ELSE /\ Cardinality(users) + Cardinality((1..MaxCalls) \ Idle) < MaxUsers
            /\ pending' = [pending EXCEPT ![c] =
                              PendingCall("register", caller, 0, empCode, email)]
            /\ UNCHANGED resp
    /\ UNCHANGED <<users, authVars, templateVars, sheetVars>>

\* POST /api/auth/register from the INSERT on: emp_code and email are UNIQUE
\* columns, so the INSERT fails when a row with either value has been
\* committed meanwhile; the service rolls back and rethrows the driver's
\* error, whose message does not contain 'already exists', and the route
\* answers 500.
RegisterCommit(c) ==
    /\ pending[c].op = "register"
    /\ LET call == pending[c]
           id == Cardinality(users) + 1 IN
       IF \E u \in users : u.empCode = call.a \/ u.email = call.b
       THEN /\ resp' = Response("register", 500, call.caller, 0, "Internal server error")
            /\ UNCHANGED users
       ELSE /\ users' = users \cup
                  {[id |-> id, empCode |-> call.a, email |-> call.b,
                    passwordHash |-> bcryptHash("New@1234", id), role |-> "user"]}
            /\ resp' = Response("register", 201, call.caller, id, "")
    /\ pending' = [pending EXCEPT ![c] = NoCall]
    /\ UNCHANGED <<authVars, templateVars, sheetVars>>

NewEmpCodes == {"USER001", "USER003", "USER004"}
NewEmails == {"user@in.honda", "user3@in.honda", "user4@in.honda"}

NextRegister ==
    \/ \E c \in 1..MaxCalls, caller \in UserIds, e \in NewEmpCodes, m \in NewEmails :
          RegisterBegin(c, caller, e, m)
    \/ \E c \in 1..MaxCalls : RegisterCommit(c)

SpecRegister == Init /\ [][NextRegister]_vars

(***************************************************************************)
(* The audit trail.  Each handler writes its audit_log row right before it  *)
(* sends its success response, and on no other path; the row is therefore   *)
(* given here as a function of the response the handler sent.               *)
(***************************************************************************)
NoAudit == [user |-> 0, action |-> "none", entityType |-> "none", entityId |-> 0]

AuditRow(user, action, entityType, entityId) ==
    [user |-> user, action |-> action, entityType |-> entityType, entityId |-> entityId]

\* The audit_log row written by the handler that answered r: the inline
\* INSERT of loginUser and logoutUser and the logAudit calls of the template
\* and sheet routes.  registerUser and refreshAccessToken write none.
auditRow(r) ==
    IF r.status \notin {200, 201} THEN NoAudit
    ELSE CASE r.op = "login"  -> AuditRow(r.user, "LOGIN", "user", r.user)
           [] r.op = "logout" -> AuditRow(r.user, "LOGOUT", "user", r.user)
           [] r.op = "template.create" -> AuditRow(r.user, "CREATE", "template", r.id)
           [] r.op = "template.update" -> AuditRow(r.user, "UPDATE", "template", r.id)
           [] r.op = "template.delete" -> AuditRow(r.user, "DELETE", "template", r.id)
           [] r.op = "template.publish" ->
                 AuditRow(r.user,
                          IF r.id \in TemplateIds /\ templates[r.id].isDeployed
                          THEN "PUBLISH" ELSE "UNPUBLISH",
                          "template", r.id)
           [] r.op = "sheet.create"    -> AuditRow(r.user, "CREATE", "da_sheet", r.id)
           [] r.op = "sheet.update"    -> AuditRow(r.user, "UPDATE", "da_sheet", r.id)
           [] r.op = "sheet.delete"    -> AuditRow(r.user, "DELETE", "da_sheet", r.id)
           [] r.op = "sheet.duplicate" -> AuditRow(r.user, "DUPLICATE", "da_sheet", r.id)
           [] r.op = "sheet.share"     -> AuditRow(r.user, "SHARE", "da_sheet", r.id)
           [] r.op = "sheet.unshare"   -> AuditRow(r.user, "UNSHARE", "da_sheet", r.id)
           [] OTHER -> NoAudit

MutatingOps ==
    {"register", "login", "logout", "template.create", "template.update",
     "template.delete", "template.publish", "sheet.create", "sheet.update",
     "sheet.delete", "sheet.duplicate", "sheet.share", "sheet.unshare"}

\* C22: every mutating operation that succeeds, registration included,
\* appends an audit row that names the actor.
C22_EverySuccessIsAudited ==
    [][(resp'.op \in MutatingOps /\ resp'.status \in {200, 201})
       => /\ auditRow(resp)' # NoAudit
          /\ auditRow(resp)'.user = resp'.user]_vars

\* C15: a registration that ends while a user with its employee code or its
\* email exists is answered 409 with the duplicate-identity message and
\* leaves the users as they were, whether the other user was there before the
\* request started or was committed by a concurrent registration; and no two
\* users ever share an employee code or an email.
C15_DuplicateRegistrationIs409 ==
    /\ [](\A a, b \in users : (a.empCode = b.empCode \/ a.email = b.email) => a = b)
    /\ [][\A c \in 1..MaxCalls :
            /\ \A e \in NewEmpCodes, m \in NewEmails :
                  (/\ RegisterBegin(c, 1, e, m)
                   /\ \E u \in users : u.empCode = e \/ u.email = m)
                  => /\ resp'.status = 409
                     /\ resp'.error = "User with this employee code or email already exists"
                     /\ users' = users
            /\ (/\ RegisterCommit(c)
                /\ \E u \in users : u.empCode = pending[c].a \/ u.email = pending[c].b)
               => /\ resp'.status = 409
                  /\ resp'.error = "User with this employee code or email already exists"
                  /\ users' = users]_vars

(***************************************************************************)
(* Template delete against sheet create, asynchronous routes: each awaits   *)
(* between its SELECTs and its transaction.  da_sheets.template_id          *)
(* REFERENCES templates(id) without ON DELETE, so the store refuses a       *)
(* DELETE of a referenced template and an INSERT naming a missing one.      *)
(***************************************************************************)
\* DELETE /api/templates/:id up to the transaction: authorize('admin'), the
\* SELECT of the template and the COUNT of the sheets that use it.
TemplateDeleteBegin(c, u, id) ==
    /\ c \in Idle
    /\ IF ~authorize(u, "admin")
       THEN /\ resp' = Response("template.delete", 403, u, id, "Insufficient permissions")
            /\ UNCHANGED pending
       ELSE IF id \notin TemplateIds
       THEN /\ resp' = Response("template.delete", 404, u, id, "Template not found")
            /\ UNCHANGED pending
       ELSE IF \E s \in DOMAIN sheets : sheets[s].templateId = id
       THEN /\ resp' = Response("template.delete", 409, u, id,
                                "Cannot delete template that is in use by DA sheets")
            /\ UNCHANGED pending
       ELSE /\ pending' = [pending EXCEPT ![c] = PendingCall("template.delete", u, id, "", "")]
            /\ UNCHANGED resp
    /\ UNCHANGED <<users, authVars, templateVars, sheetVars>>

\* DELETE /api/templates/:id, the transaction: DELETE FROM templates.  The
\* statement fails on the foreign key when a sheet references the template
\* by now, and the route's catch answers 500; it deletes no row, and still
\* answers 200, when the template is already gone.
TemplateDeleteCommit(c) ==
    /\ pending[c].op = "template.delete"
    /\ LET call == pending[c] IN
       IF \E s \in DOMAIN sheets : sheets[s].templateId = call.id
       THEN /\ resp' = Response("template.delete", 500, call.caller, call.id,
                                "Internal server error")
            /\ UNCHANGED templateVars
       ELSE /\ templates' = [t \in TemplateIds \ {call.id} |-> templates[t]]
            /\ resp' = Response("template.delete", 200, call.caller, call.id, "")
            /\ UNCHANGED nextTemplate
    /\ pending' = [pending EXCEPT ![c] = NoCall]
    /\ UNCHANGED <<users, authVars, sheetVars>>

\* POST /api/sheets up to the transaction: the SELECT of the template.
SheetCreateBegin(c, u, templateId) ==
    /\ c \in Idle
    /\ IF templateId \notin TemplateIds
       THEN /\ resp' = Response("sheet.create", 400, u, 0, "Template not found")
            /\ UNCHANGED pending
       ELSE /\ nextSheet + Cardinality({d \in 1..MaxCalls : pending[d].op = "sheet.create"})
                 < MaxSheets
            /\ pending' = [pending EXCEPT ![c] =
                              PendingCall("sheet.create", u, templateId, "", "")]
            /\ UNCHANGED resp
    /\ UNCHANGED <<users, authVars, templateVars, sheetVars>>

\* POST /api/sheets, the transaction: INSERT INTO da_sheets.  The statement
\* fails on the foreign key when the template has been deleted by now.
SheetCreateCommit(c) ==
    /\ pending[c].op = "sheet.create"
    /\ LET call == pending[c] IN
       IF call.id \notin TemplateIds
       THEN /\ resp' = Response("sheet.create", 500, call.caller, 0, "Internal server error")
            /\ UNCHANGED sheetVars
       ELSE /\ nextSheet' = nextSheet + 1
            /\ sheets' = sheets @@
                  (nextSheet + 1 :>
                     [name |-> SheetName, status |-> "Draft", templateId |-> call.id,
                      version |-> 1, createdBy |-> call.caller, approvedBy |-> 0,
                      vendors |-> <<>>])
            /\ updates' = updates @@ (nextSheet + 1 :> 0)
            /\ resp' = Response("sheet.create", 201, call.caller, nextSheet + 1, "")
            /\ UNCHANGED sharedAccess
    /\ pending' = [pending EXCEPT ![c] = NoCall]
    /\ UNCHANGED <<users, authVars, templateVars>>

NextTemplateUse ==
    \/ \E d \in BOOLEAN : TemplateCreate(1, Body100, d)
    \/ \E c \in 1..MaxCalls, u \in {1, 2}, t \in 1..MaxTemplates : TemplateDeleteBegin(c, u, t)
    \/ \E c \in 1..MaxCalls : TemplateDeleteCommit(c)
    \/ \E c \in 1..MaxCalls, t \in 1..MaxTemplates : SheetCreateBegin(c, 2, t)
    \/ \E c \in 1..MaxCalls : SheetCreateCommit(c)
    \/ \E s \in 1..MaxSheets : SheetDelete(2, s)

SpecTemplateUse == Init /\ [][NextTemplateUse]_vars

\* C18: every sheet's templateId names an existing template in every
\* reachable state, and a delete of a template that a sheet references is
\* answered 409 and deletes nothing, whether the sheet was there when the
\* delete started or was created while it ran.
C18_ReferencedTemplateDeleteIs409 ==
    /\ [](\A s \in SheetIds : sheets[s].templateId \in TemplateIds)
    /\ [][\A c \in 1..MaxCalls, t \in TemplateIds :
            (/\ \E s \in SheetIds : sheets[s].templateId = t
             /\ \/ TemplateDeleteBegin(c, 1, t)
                \/ TemplateDeleteCommit(c) /\ pending[c].id = t)
            => /\ resp'.status = 409
               /\ UNCHANGED <<templates, sheets>>]_vars

(***************************************************************************)
(* The sheet listing (GET /api/sheets) without type, status or search       *)
(* filter, first page.                                                      *)
(***************************************************************************)
\* da_sheets s LEFT JOIN shared_access sa ON s.id = sa.da_sheet_id
\*             LEFT JOIN users u ON sa.user_email = u.email
\* A sheet without a share row gives one row with sa and u NULL (email "",
\* uid 0); a share row whose email is no user's gives u NULL.
JoinRows ==
    UNION {LET shares == {a \in sharedAccess : a.sheet = id} IN
           IF shares = {}
           THEN {[sheet |-> id, email |-> "", uid |-> 0]}
           ELSE {[sheet |-> id, email |-> a.email,
                  uid |-> LET match == {u \in users : u.email = a.email} IN
                          IF match = {} THEN 0 ELSE (CHOOSE u \in match : TRUE).id]
                 : a \in shares}
           : id \in SheetIds}

\* WHERE (s.created_by = :userId OR u.id = :userId), for a non-admin caller;
\* no join and no condition for an admin.
ListRows(userId) ==
    IF RoleOf(userId) = "admin"
    THEN {[sheet |-> id, email |-> "", uid |-> 0] : id \in SheetIds}
    ELSE {r \in JoinRows : sheets[r.sheet].createdBy = userId \/ r.uid = userId}

\* SELECT COUNT(*): the variant C21 rules out.
countJoinedRows(rows) == Cardinality(rows)

\* SELECT COUNT(DISTINCT s.id)
countTotal(rows) == Cardinality({r.sheet : r \in rows})

\* GET /api/sheets: SELECT DISTINCT s.*, and the total of the count query.
SheetList(u) ==
    /\ resp' = [op |-> "sheet.list", status |-> 200, user |-> u,
                id |-> countTotal(ListRows(u)), error |-> "",
                sheets |-> {r.sheet : r \in ListRows(u)}]
    /\ UNCHANGED <<users, pending, authVars, templateVars, sheetVars>>

ListEmails == {"user@in.honda", "user2@in.honda"}

NextList ==
    \/ TemplateCreate(1, Body100, TRUE)
    \/ \E u \in {2, 3} : SheetCreate(u, CreateInput(SheetName, 1, <<>>))
    \/ \E u \in {2, 3}, s \in 1..MaxSheets, e \in ListEmails, l \in {"view", "edit"} :
          SheetShare(u, s, e, l)
    \/ \E u \in {2, 3}, s \in 1..MaxSheets, e \in ListEmails : SheetUnshare(u, s, e)
    \/ \E u \in {2, 3}, s \in 1..MaxSheets : SheetDelete(u, s)
    \/ \E u \in UserIds : SheetList(u)

SpecList == Init /\ [][NextList]_vars

RaceList(key) == IF key = "A" THEN <<VendorHonest>> ELSE <<VendorBare>>

\* The name under which a call remembers the vendor rows its DELETE removed.
ListKey(rows) ==
    IF rows = VendorRows(RaceList("A")) THEN "A"
    ELSE IF rows = VendorRows(RaceList("B")) THEN "B" ELSE "-"

RowsOf(key) == IF key = "-" THEN <<>> ELSE VendorRows(RaceList(key))

UpdateOps == {"sheet.update", "sheet.update.locked", "sheet.update.deleted"}

\* An UPDATE that takes no row lock: the variant C24 rules out.
rowNeverLocked(id) == FALSE

\* Another transaction has updated the da_sheets row and not yet ended.
rowLocked(id) ==
    \E d \in 1..MaxCalls :
        pending[d].op \in {"sheet.update.locked", "sheet.update.deleted"} /\ pending[d].id = id

\* validate, hasAccess(sheetId, userId, 'edit') || admin, SELECT of the sheet
UpdateBegin(c, u, id, key) ==
    /\ c \in Idle
    /\ IF ~validVendors(RaceList(key))
       THEN /\ resp' = Response("sheet.update", 400, u, id, "Validation failed")
            /\ UNCHANGED pending
       ELSE IF ~routeAccess(id, u, "edit")
       THEN /\ resp' = Response("sheet.update", 403, u, id, "Access denied")
            /\ UNCHANGED pending
       ELSE IF id \notin SheetIds
       THEN /\ resp' = Response("sheet.update", 404, u, id, "DA Sheet not found")
            /\ UNCHANGED pending
       ELSE /\ sheets[id].version
                 + Cardinality({d \in 1..MaxCalls :
                                  pending[d].op \in UpdateOps /\ pending[d].id = id})
                 < MaxVersion
            /\ pending' = [pending EXCEPT ![c] = PendingCall("sheet.update", u, id, key, "")]
            /\ UNCHANGED resp
    /\ UNCHANGED <<users, authVars, templateVars, sheetVars>>

\* UPDATE da_sheets SET version = version + 1 ...: waits for the row lock.
UpdateStatement(c) ==
    /\ pending[c].op = "sheet.update"
    /\ ~rowLocked(pending[c].id)
    /\ pending' = [pending EXCEPT ![c].op = "sheet.update.locked"]
    /\ UNCHANGED <<users, authVars, templateVars, sheetVars, resp>>

\* DELETE FROM vendors WHERE da_sheet_id = :sheetId: removes the vendor rows
\* committed at this moment.
UpdateDelete(c) ==
    /\ pending[c].op = "sheet.update.locked"
    /\ pending' = [pending EXCEPT
                      ![c].op = "sheet.update.deleted",
                      ![c].b = ListKey(sheets[pending[c].id].vendors)]
    /\ UNCHANGED <<users, authVars, templateVars, sheetVars, resp>>

\* The INSERTs of the request's vendors and evaluations, and the commit: the
\* rows the DELETE removed are gone, rows committed since stay, the request's
\* rows are added, and the version is one higher.
UpdateCommit(c) ==
    /\ pending[c].op = "sheet.update.deleted"
    /\ LET call == pending[c]
           kept == IF sheets[call.id].vendors = RowsOf(call.b)
                   THEN <<>> ELSE sheets[call.id].vendors IN
       /\ sheets' = [sheets EXCEPT
                        ![call.id].version = @ + 1,
                        ![call.id].vendors = kept \o VendorRows(RaceList(call.a))]
       /\ updates' = [updates EXCEPT ![call.id] = @ + 1]
       /\ resp' = Response("sheet.update", 200, call.caller, call.id, "")
    /\ pending' = [pending EXCEPT ![c] = NoCall]
    /\ UNCHANGED <<users, authVars, templateVars, nextSheet, sharedAccess>>

NextUpdateRace ==
    \/ TemplateCreate(1, Body100, TRUE)
    \/ SheetCreate(2, CreateInput(SheetName, 1, <<>>))
    \/ \E s \in 1..MaxSheets : SheetShare(2, s, "user2@in.honda", "edit")
    \/ \E s \in 1..MaxSheets : SheetUnshare(2, s, "user2@in.honda")
    \/ \E c \in 1..MaxCalls, u \in {2, 3}, s \in 1..MaxSheets, k \in {"A", "B"} :
          UpdateBegin(c, u, s, k)
    \/ \E c \in 1..MaxCalls : UpdateStatement(c)
    \/ \E c \in 1..MaxCalls : UpdateDelete(c)
    \/ \E c \in 1..MaxCalls : UpdateCommit(c)

SpecUpdateRace == Init /\ [][NextUpdateRace]_vars

C27_NoCommitAfterUnshare ==
    [][\A c \in 1..MaxCalls :
          UpdateCommit(c)
          => \/ sheets[pending[c].id].createdBy = pending[c].caller
             \/ RoleOf(pending[c].caller) = "admin"
             \/ \E a \in sharedAccess :
                   /\ a.sheet = pending[c].id /\ a.level = "edit"
                   /\ a.email = UserById(pending[c].caller).email]_vars

\* Requests of the scoring specification: one owner, every vendor list.
NextScores ==
    \/ \E d \in BOOLEAN : TemplateCreate(1, Body100, d)
    \/ \E t \in 1..MaxTemplates, v \in VendorLists :
          SheetCreate(2, CreateInput(SheetName, t, v))
    \/ \E s \in 1..MaxSheets,
          p \in {EmptyPatch, SubmitPatch, ApprovePatch, DraftPatch, FailingPatch}
                \cup {VendorsPatch(v) : v \in VendorLists} :
          SheetUpdate(2, s, p)
    \/ \E s \in 1..MaxSheets : SheetDuplicate(2, s)
    \/ \E s \in 1..MaxSheets : SheetDelete(2, s)

SpecScores == Init /\ [][NextScores]_vars

(***************************************************************************)
(* Properties of the authentication service (SpecAuth).                    *)
(***************************************************************************)

\* C1: a refresh token is redeemed at most once, whatever the interleaving
\* of the refresh calls that present it: no refresh_tokens row is the matched
\* row of two successful calls.
C1_RedeemedAtMostOnce == \A i \in RowIds : refreshTokens[i].redemptions <= 1

RECURSIVE SumRedemptions(_)
SumRedemptions(rows) ==
    IF rows = <<>> THEN 0 ELSE Head(rows).redemptions + SumRedemptions(Tail(rows))

\* C23: a refresh is all-or-nothing: whenever the store moves to a state in
\* which one more refresh_tokens row has been revoked by a redemption, the
\* successor row of that redemption is in that state too, and every other
\* step leaves the redemptions as they are.
C23_RefreshIsAtomic ==
    [][\/ /\ SumRedemptions(refreshTokens') = SumRedemptions(refreshTokens) + 1
          /\ Len(refreshTokens') = Len(refreshTokens) + 1
          /\ resp'.op = "refresh" /\ resp'.status = 200
       \/ /\ SumRedemptions(refreshTokens') = SumRedemptions(refreshTokens)
          /\ (Len(refreshTokens') > Len(refreshTokens)
              => resp'.op = "login" /\ resp'.status = 200)]_vars

\* C28: a refresh token presented as bearer token is rejected with 401,
\* before and after the logout of its session.
C28_RefreshTokenIsNoBearer ==
    [][\A t \in IssuedTokens : Authenticate(t) => resp'.status = 401]_vars

\* C29: a publish request answered 200 on a template that is already
\* published leaves the template published.
C29_PublishKeepsPublished ==
    [][\A u \in {1, 2}, t \in 1..MaxTemplates :
          (/\ t \in TemplateIds
           /\ templates[t].isDeployed
           /\ TemplatePublish(u, t)
           /\ resp'.status = 200)
          => templates'[t].isDeployed]_vars

\* A raw refresh token that some call has redeemed: a row stored for it has
\* been revoked by a refresh.
Redeemed(token) ==
    \E i \in RowIds : /\ refreshTokens[i].tokenHash.input = token
                      /\ refreshTokens[i].redemptions > 0

\* C30: a refresh call that presents a token already redeemed is rejected: it
\* matches no row and is answered 401, also in the clock second of the
\* redemption.
C30_RedeemedTokenIsRejected ==
    [][\A c \in 1..MaxCalls, t \in IssuedTokens :
          (Redeemed(t) /\ RefreshBegin(c, t))
          => /\ calls'[c].pc = "idle"
             /\ resp'.status = 401]_vars

AllRevoked(u) == \A i \in RowIds : refreshTokens[i].userId = u => refreshTokens[i].revoked

\* C14: a logout that returned leaves the user without an unrevoked
\* refresh_tokens row, and the user stays without one until their next login,
\* whatever refresh calls of theirs are in flight.
C14_LogoutEndsSessions ==
    [][\A u \in UserIds :
          /\ Logout(u, TRUE) => AllRevoked(u)'
          /\ (AllRevoked(u) /\ ~(resp'.op = "login" /\ resp'.status = 200 /\ resp'.user = u))
             => AllRevoked(u)']_vars

\* C16: when the audit insert of a login or a logout fails, the caller still
\* gets the success response and the operation's own write is committed.
C16_AuditFailureIsHarmless ==
    [][/\ \A e \in EmpCodes, p \in Passwords :
            (Login(e, p, FALSE) /\ loginUser(e, p).ok)
            => resp'.status = 200 /\ Len(refreshTokens') = Len(refreshTokens) + 1
       /\ \A u \in UserIds :
            Logout(u, FALSE) => resp'.status = 200 /\ AllRevoked(u)']_vars

\* C20: two failed refreshes answered one after the other carry the same
\* status and the same message.
C20_RefreshFailuresAlike ==
    [][(/\ resp.op = "refresh" /\ resp.status # 200
        /\ resp'.op = "refresh" /\ resp'.status # 200)
       => resp'.status = resp.status /\ resp'.error = resp.error]_vars

(***************************************************************************)
(* Properties of the template routes (SpecTemplates).                      *)
(***************************************************************************)

\* C5: publishing a draft template by an admin sets the flag when the total
\* weightage is 100, and otherwise answers 409 and leaves the templates as
\* they were.
C5_PublishNeedsFullWeightage ==
    [][\A u \in UserIds, id \in TemplateIds :
          (/\ TemplatePublish(u, id)
           /\ authorize(u, "admin")
           /\ ~templates[id].isDeployed)
          => IF getTotalWeightage(templates[id].categories) = 100
             THEN resp'.status = 200 /\ templates'[id].isDeployed
             ELSE resp'.status = 409 /\ templates' = templates]_vars

\* C6: every deployed template has a total weightage of exactly 100.
C6_DeployedTotalIs100 ==
    \A t \in TemplateIds :
        templates[t].isDeployed => getTotalWeightage(templates[t].categories) = 100

(***************************************************************************)
(* Properties of the stored scores (SpecScores).                           *)
(***************************************************************************)

\* evalScore * weightage without the range guard: the variant C26 rules out.
calculateResultUnguarded(evalScore, weightage) == evalScore * weightage

\* calculateResult: evalScore * weightage, 0 for a score outside 0..10
calculateResult(evalScore, weightage) ==
    IF evalScore < 0 \/ evalScore > 10 THEN 0 ELSE evalScore * weightage

\* The weightage of a parameter of a template, 0 when the template has none
\* of that id (recalculateVendor: param?.weightage ?? 0).
ParameterWeightage(templateId, parameterId) ==
    LET categories == templates[templateId].categories
        found == {p \in UNION {{categories[i].parameters[j] :
                                   j \in 1..Len(categories[i].parameters)} :
                               i \in 1..Len(categories)} : p.id = parameterId} IN
    IF found = {} THEN 0 ELSE (CHOOSE p \in found : TRUE).weightage

ResultsDerived(row) ==
    \A i \in 1..Len(row.vendors) :
        \A j \in 1..Len(row.vendors[i].evaluations) :
            LET e == row.vendors[i].evaluations[j] IN
            e.result = calculateResult(e.evalScore,
                                       ParameterWeightage(row.templateId, e.parameterId))

RECURSIVE SumResults(_)
SumResults(evaluations) ==
    IF evaluations = <<>> THEN 0
    ELSE Head(evaluations).result + SumResults(Tail(evaluations))

(***************************************************************************)
(* recalculateVendor (utils/calculations).  A vendor's scores object is a   *)
(* sequence of entries with distinct category ids, in key order.            *)
(***************************************************************************)
\* calculateCategorySubTotal
calculateCategorySubTotal(evaluations) == SumResults(evaluations)

\* calculateOverallScore
RECURSIVE calculateOverallScore(_)
calculateOverallScore(scores) ==
    IF scores = <<>> THEN 0
    ELSE Head(scores).subTotal + calculateOverallScore(Tail(scores))

\* category.parameters.find((p) => p.id === parameterId)?.weightage ?? 0
weightageIn(category, parameterId) ==
    LET hits == {j \in 1..Len(category.parameters) :
                    category.parameters[j].id = parameterId} IN
    IF hits = {} THEN 0
    ELSE category.parameters[CHOOSE j \in hits : \A k \in hits : j <= k].weightage

\* The loop over the categories: a category the vendor has no scores for is
\* skipped, and an entry of the vendor for no given category is dropped.
RECURSIVE updatedScores(_, _)
updatedScores(vendor, categories) ==
    IF categories = <<>> THEN <<>>
    ELSE LET category == Head(categories)
             hits == {i \in 1..Len(vendor.scores) :
                         vendor.scores[i].categoryId = category.id} IN
         IF hits = {} THEN updatedScores(vendor, Tail(categories))
         ELSE LET catScores == vendor.scores[CHOOSE i \in hits : TRUE]
                  updatedEvaluations ==
                      [j \in 1..Len(catScores.evaluations) |->
                          [catScores.evaluations[j] EXCEPT
                              !.result = calculateResult(
                                  catScores.evaluations[j].evalScore,
                                  weightageIn(category,
                                              catScores.evaluations[j].parameterId))]] IN
              << [categoryId |-> category.id,
                  evaluations |-> updatedEvaluations,
                  subTotal |-> calculateCategorySubTotal(updatedEvaluations)] >>
              \o updatedScores(vendor, Tail(categories))

recalculateVendor(vendor, categories) ==
    [vendor EXCEPT
        !.scores = updatedScores(vendor, categories),
        !.overallScore = calculateOverallScore(updatedScores(vendor, categories))]

\* A call of recalculateVendor and what it returned.
Recalculate(vendor, categories) ==
    /\ resp' = [op |-> "recalculateVendor", status |-> 200, user |-> 0, id |-> 0,
                error |-> "", vendor |-> vendor, categories |-> categories,
                returned |-> recalculateVendor(vendor, categories)]
    /\ UNCHANGED <<users, pending, authVars, templateVars, sheetVars>>

\* Scores inside and outside 0..10.
RecalcScores == {-1, 0, 7, 10, 11}

CommentedEvaluation(parameterId, evalScore, result, vendorComment) ==
    [parameterId |-> parameterId, evalScore |-> evalScore, result |-> result,
     vendorComment |-> vendorComment]

\* Vendors with stale results and totals: scores for c1 (p1, and p3, which is
\* no parameter of c1), and possibly for c2 and for c9, which no template has.
RecalcVendors ==
    {VendorInput(Acme,
        << CategoryScores("c1", <<CommentedEvaluation("p1", a, 999, "good"),
                                  CommentedEvaluation("p3", b, 5, "")>>, 1) >>
        \o (IF withC2 THEN << CategoryScores("c2", <<CommentedEvaluation("p4", c, 0, "late")>>, 77) >>
            ELSE <<>>)
        \o (IF withC9 THEN << CategoryScores("c9", <<CommentedEvaluation("p1", 10, 300, "")>>, 300) >>
            ELSE <<>>),
        12345)
     : a \in RecalcScores, b \in RecalcScores, c \in RecalcScores,
       withC2 \in BOOLEAN, withC9 \in BOOLEAN}

NextRecalculate ==
    \E vendor \in RecalcVendors, categories \in {Body100, Body60} :
        Recalculate(vendor, categories)

SpecRecalculate == Init /\ [][NextRecalculate]_vars

\* C26: in the vendor recalculateVendor returns, every given category the
\* vendor has scores for keeps its evaluations' parameters, scores and
\* comments; each result is score * weightage of the parameter in that
\* category, and 0 when the score is outside 0..10 or the category has no
\* such parameter; the subTotal is the sum of the results; the overall score
\* is the sum of the subTotals.
C26_RecalculateVendor ==
    resp.op = "recalculateVendor"
    => LET out == resp.returned
           given == {i \in 1..Len(resp.categories) :
                       \E k \in 1..Len(resp.vendor.scores) :
                          resp.vendor.scores[k].categoryId = resp.categories[i].id} IN
       /\ out.name = resp.vendor.name
       /\ \A i \in given :
             \E k \in 1..Len(resp.vendor.scores), o \in 1..Len(out.scores) :
                LET category == resp.categories[i]
                    old == resp.vendor.scores[k]
                    new == out.scores[o] IN
                /\ old.categoryId = category.id /\ new.categoryId = category.id
                /\ Len(new.evaluations) = Len(old.evaluations)
                /\ \A j \in 1..Len(old.evaluations) :
                      LET e == old.evaluations[j]
                          w == {p.weightage : p \in {category.parameters[n] :
                                                       n \in 1..Len(category.parameters)}
                                                \cap {q \in {category.parameters[n] :
                                                       n \in 1..Len(category.parameters)} :
                                                         q.id = e.parameterId}} IN
                      /\ new.evaluations[j].parameterId = e.parameterId
                      /\ new.evaluations[j].evalScore = e.evalScore
                      /\ new.evaluations[j].vendorComment = e.vendorComment
                      /\ new.evaluations[j].result =
                            IF e.evalScore < 0 \/ e.evalScore > 10 \/ w = {} THEN 0
                            ELSE e.evalScore * (CHOOSE x \in w : TRUE)
                /\ new.subTotal = SumResults(new.evaluations)
       /\ out.overallScore = calculateOverallScore(out.scores)
       /\ Len(out.scores) = Cardinality(given)

\* recalculateVendor has returned for a vendor with a score above 10, a score
\* below 0 on a parameter that is not in its category, scores for a category
\* no template has, and stale totals.
C26_OutOfRangeRecalculated ==
    /\ resp.op = "recalculateVendor"
    /\ Len(resp.vendor.scores) = 3
    /\ resp.vendor.scores[1].evaluations[1].evalScore = 11
    /\ resp.vendor.scores[1].evaluations[2].evalScore = -1
    /\ resp.vendor.scores[2].evaluations[1].evalScore = 7
    /\ resp.returned.overallScore = 70

\* C2: after a successful update that supplies a vendor list, every stored
\* evaluation of the sheet has result = score * weightage of its parameter in
\* the sheet's template, whatever result the body carried.
C2_ResultsRecomputedOnUpdate ==
    [][\A s \in SheetIds, v \in VendorLists :
          SheetUpdate(2, s, VendorsPatch(v)) /\ resp'.status = 200
          => ResultsDerived(sheets'[s])]_vars

\* C3: every vendor's stored overall score is the sum of the stored results
\* of its evaluations.
C3_OverallIsSumOfResults ==
    \A s \in SheetIds :
        \A i \in 1..Len(sheets[s].vendors) :
            sheets[s].vendors[i].overallScore = SumResults(sheets[s].vendors[i].evaluations)

\* C7: a sheet is created only from a template that exists and is deployed
\* at that moment.
C7_CreatedFromDeployedTemplate ==
    [][\A t \in 1..MaxTemplates, v \in VendorLists :
          SheetCreate(2, CreateInput(SheetName, t, v)) /\ resp'.status = 201
          => t \in TemplateIds /\ templates[t].isDeployed]_vars

StatusRank(status) ==
    CASE status = "Draft" -> 0 [] status = "Submitted" -> 1 [] status = "Approved" -> 2

C17_StatusOnlyAdvances ==
    [][\A s \in SheetIds :
          (resp'.op = "sheet.update" /\ resp'.status = 200 /\ resp'.id = s)
          => StatusRank(sheets'[s].status) >= StatusRank(sheets[s].status)]_vars

\* The parameters of a template, category by category.
RECURSIVE TemplateParameters(_)
TemplateParameters(categories) ==
    IF categories = <<>> THEN <<>>
    ELSE Head(categories).parameters \o TemplateParameters(Tail(categories))

\* C19: a sheet created with a vendor that brings no evaluation matrix stores,
\* for that vendor, one evaluation per parameter of the template as it is at
\* that moment, each with score 0 and result 0.
C19_EmptyMatrixInitialised ==
    [][\A t \in TemplateIds :
          (SheetCreate(2, CreateInput(SheetName, t, <<VendorBare>>)) /\ resp'.status = 201)
          => LET stored == sheets'[resp'.id].vendors[1].evaluations
                 params == TemplateParameters(templates[t].categories) IN
             /\ Len(stored) = Len(params)
             /\ \A i \in 1..Len(stored) :
                   /\ stored[i].parameterId = params[i].id
                   /\ stored[i].evalScore = 0 /\ stored[i].result = 0]_vars

(***************************************************************************)
(* Properties of the sheet routes (Spec).                                  *)
(***************************************************************************)

\* C4: a sheet starts at version 1, a successful update raises its version by
\* exactly 1 whatever the patch holds, every other request leaves the version
\* alone, and so the version is 1 + the number of successful updates.
C4_VersionCountsUpdates ==
    /\ [](\A s \in SheetIds : sheets[s].version = 1 + updates[s])
    /\ [][\A s \in 1..MaxSheets :
            /\ (s \notin SheetIds /\ s \in DOMAIN sheets') => sheets'[s].version = 1
            /\ (s \in SheetIds /\ s \in DOMAIN sheets')
               => /\ sheets'[s].version =
                        IF resp'.op = "sheet.update" /\ resp'.status = 200 /\ resp'.id = s
                        THEN sheets[s].version + 1
                        ELSE sheets[s].version
                  /\ updates'[s] - updates[s] = sheets'[s].version - sheets[s].version]_vars

\* A sheet that two updates have succeeded on.
C4_UpdatedTwice ==
    \E s \in SheetIds : updates[s] = 2 /\ sheets[s].version = 3

\* Neither owner nor admin, and no shared_access row for the caller's email.
Stranger(u, s) ==
    /\ sheets[s].createdBy # u
    /\ RoleOf(u) # "admin"
    /\ ~\E a \in sharedAccess : a.sheet = s /\ a.email = UserById(u).email

\* A request of caller u on sheet s, on any of the six routes.
SheetRequest(u, s) ==
    \/ SheetGet(u, s)
    \/ \E p \in AccessPatches : SheetUpdate(u, s, p)
    \/ SheetDelete(u, s)
    \/ SheetDuplicate(u, s)
    \/ \E l \in AccessLevels : SheetShare(u, s, "user2@in.honda", l)
    \/ SheetUnshare(u, s, "user2@in.honda")

\* The answer to a request the route refuses: the update and share routes
\* validate the body before they look at the caller.
RefusedUpdate(p) == IF p.hasVendors /\ ~validVendors(p.vendors) THEN 400 ELSE 403
RefusedShare(email, l) == IF validShare(email, l) THEN 403 ELSE 400

EditGrantee(u, s) ==
    /\ sheets[s].createdBy # u
    /\ RoleOf(u) # "admin"
    /\ \E a \in sharedAccess :
          a.sheet = s /\ a.email = UserById(u).email /\ a.level = "edit"

\* The response of the step is to caller u on the named route (every route
\* names its caller in its response, so this holds of every step of the route).
Answers(op, u) == resp'.op = op /\ resp'.user = u

\* A delete, share or unshare request of caller u on sheet s.
ManageRequest(u, s) ==
    \/ Answers("sheet.delete", u) /\ SheetDelete(u, s)
    \/ Answers("sheet.unshare", u) /\ SheetUnshare(u, s, "user2@in.honda")
    \/ Answers("sheet.share", u)
       /\ \E l \in AccessLevels : SheetShare(u, s, "user2@in.honda", l)

\* C11 (as the routes behave): delete, share and unshare of a sheet by a
\* caller who is neither its owner nor an admin -- an edit grantee included --
\* change nothing; delete and unshare are answered 403, and share is answered
\* 403, or 400 when its body is malformed; whoever is answered 200 on these
\* routes is the owner or an admin.
C11_OnlyOwnerOrAdminManages ==
    [][\A u \in UserIds, s \in SheetIds :
          ManageRequest(u, s)
          => IF sheets[s].createdBy # u /\ RoleOf(u) # "admin"
             THEN /\ UNCHANGED sheetVars
                  /\ resp'.status \in {400, 403}
                  /\ resp'.status = 400
                     <=> \E l \in AccessLevels :
                            /\ SheetShare(u, s, "user2@in.honda", l)
                            /\ ~validShare("user2@in.honda", l)
             ELSE resp'.status \in {200, 400}]_vars

\* C11 (as stated): every such request is answered 403 and changes nothing.
C11_OthersAlways403 ==
    [][\A u \in UserIds, s \in SheetIds :
          (sheets[s].createdBy # u /\ RoleOf(u) # "admin" /\ ManageRequest(u, s))
          => resp'.status = 403 /\ UNCHANGED sheetVars]_vars

\* An edit grantee's delete has been refused.
C11_EditGranteeRefused ==
    /\ resp.op = "sheet.delete" /\ resp.status = 403
    /\ resp.id \in SheetIds /\ EditGrantee(resp.user, resp.id)

\* The access decision of C10 for (sheet, caller, level).
Granted(s, u, level) ==
    \/ sheets[s].createdBy = u
    \/ RoleOf(u) = "admin"
    \/ \E a \in sharedAccess :
          /\ a.sheet = s /\ a.email = UserById(u).email
          /\ (level = "view" \/ a.level = "edit")

ViewGrantee(u, s) ==
    /\ sheets[s].createdBy # u
    /\ RoleOf(u) # "admin"
    /\ \E a \in sharedAccess :
          a.sheet = s /\ a.email = UserById(u).email /\ a.level = "view"

\* C10 (as the routes behave): the get, update and duplicate routes grant
\* exactly by the decision above; a view grantee's get is answered 200, and
\* their update changes nothing and is answered 403, or 400 when its body is
\* malformed.
C10_AccessDecision ==
    /\ [](\A s \in SheetIds, u \in UserIds, level \in {"view", "edit"} :
             routeAccess(s, u, level) <=> Granted(s, u, level))
    /\ [][\A u \in UserIds, s \in SheetIds :
            (ViewGrantee(u, s) /\ resp'.user = u)
            => /\ SheetGet(u, s) => resp'.status = 200
               /\ \A p \in AccessPatches :
                     SheetUpdate(u, s, p)
                     => resp'.status = RefusedUpdate(p) /\ UNCHANGED sheetVars]_vars

\* C10 (as stated): every update by a view grantee is answered 403 and
\* changes nothing.
C10_ViewGranteeUpdateAlways403 ==
    [][\A u \in UserIds, s \in SheetIds, p \in AccessPatches :
          ViewGrantee(u, s) /\ SheetUpdate(u, s, p)
          => resp'.status = 403 /\ UNCHANGED sheetVars]_vars

\* A view grantee's update has been refused.
C10_ViewGranteeRefused ==
    /\ resp.op = "sheet.update" /\ resp.status = 403
    /\ resp.id \in SheetIds /\ ViewGrantee(resp.user, resp.id)

(***************************************************************************)
(* Properties of overlapping share requests (SpecShare).                   *)
(***************************************************************************)
AccessRows(s, email) == {a \in sharedAccess : a.sheet = s /\ a.email = email}

\* C12: there is at most one shared_access row per (sheet, email), and a
\* share to an email that has a row on the sheet when the request writes -- a
\* request of its own or the later of two overlapping ones -- is answered 200
\* and leaves that single row with the level it asked for.
C12_ShareIsUpsert ==
    /\ [](\A a, b \in sharedAccess : (a.sheet = b.sheet /\ a.email = b.email) => a = b)
    /\ [][\A s \in SheetIds :
            AccessRows(s, "user2@in.honda") # {}
            => \A c \in 1..MaxCalls :
                  (ShareCommit(c) /\ pending[c].id = s)
                  => /\ resp'.status = 200
                     /\ AccessRows(s, "user2@in.honda")' =
                           {[sheet |-> s, email |-> "user2@in.honda",
                             level |-> pending[c].b]}]_vars

====
